---- MODULE Spec2Model ----
(***************************************************************************)
(* A model of the asynchronous export engine of                            *)
(* src/gitlab_async_tui_exporter.py: the fan-out of export_project jobs    *)
(* under the download semaphore (run_export, lines 709-719), the per       *)
(* project trigger / poll / download workflow (export_project,             *)
(* download_export), the retry decorator (async_retry_with_backoff) and    *)
(* the paginated listing (get_all_projects).                               *)
(*                                                                         *)
(* asyncio runs the jobs cooperatively on one thread: a job runs without   *)
(* interruption from one await to the next, so each action below is the    *)
(* code between two suspension points of one coroutine.                    *)
(***************************************************************************)
EXTENDS Integers, Sequences, FiniteSets, TLC

(***************************************************************************)
(* Bounds of the model.                                                    *)
(***************************************************************************)
\* M: the number of projects handed to the fan-out (len(projects)).
NumProjects == 2
\* C: the configured download-class limit (the code's default is 5).
max_concurrent_downloads == 1
\* The poll budget of the batch specification, standing for the code's
\* max_attempts = 120 (line 267); the poll actions take the budget as a
\* parameter.
PollBudget == 2
\* The number of 8 KiB chunks of a project's remote archive.
ArchiveChunks == 2
\* The listing endpoint serves at most MaxPages pages of at most MaxPageSize
\* items (the code asks for per_page = 100).
MaxPages == 3
MaxPageSize == 2
\* How many times export_project is invoked for one project (SpecRerun).
MaxRuns == 2
\* The jitter random.random() of the backoff takes the values k/JitterSteps.
JitterSteps == 2
\* The number of instances selected for a run (len(selected_instances)).
NumInstances == 3
\* The statistics counters of SpecRate go up to MaxCount.
MaxCount == 7
\* The longest path_with_namespace, in characters.
MaxPathLen == 5
\* The clock runs from second 0 to second MaxClock.
MaxClock == 2

\* async_retry_with_backoff(retries=5, backoff_in_seconds=1), line 39.
retries_default == 5
backoff_in_seconds == 1
\* max_concurrent_api_calls: int = 10, line 101.
max_concurrent_api_calls == 10
\* max_attempts = 120, line 267: the poll budget of export_project.
max_attempts == 120

Projects == 1..NumProjects
Instances == 1..NumInstances

\* The remote archive of a project, as the sequence of its chunks.
Archive == [i \in 1..ArchiveChunks |-> i]

\* A target path with no file, and a file holding the chunks `data`.
NoFile == [exists |-> FALSE, data |-> <<>>]
File(data) == [exists |-> TRUE, data |-> data]

\* A check that never finds the file (it looks at another path).
ExistsNever(f) == FALSE

\* export_file.exists(), lines 237 and 325.
Exists(f) == f.exists

\* No response: the request raised a connection error (aiohttp.ClientError).
ConnError == 0

\* What the remote may answer to each request.
TriggerStatuses == {200, 202, 204, 403, 429, 500}
PollStatuses == {200, 500, ConnError}
ExportStatuses == {"started", "finished", "failed"}
DownloadStatuses == {200, 206, 403, 429, 500}
PassStatuses == {200, 500, ConnError}

VARIABLES
    pc,                 \* each job's position in export_project
    download_semaphore, \* the free slots (asyncio.Semaphore._value)
    waiters,            \* the jobs suspended in acquire(), first come first
    files,              \* export_file of each project, on disk
    projects_exported,  \* stats.projects_exported
    projects_failed,    \* stats.projects_failed
    retries,            \* stats.retries
    total_size,         \* stats.total_size, in chunks
    failed_projects,    \* exporter.failed_projects
    attempt,            \* each job's poll loop counter
    outcome,            \* the return site each job left export_project by
    result,             \* what each job returned to gather
    requests,           \* the remote requests each job has issued
    trigger_status,     \* the status of each job's trigger response
    download_status,    \* the status of each job's download response
    file_mode,          \* download_export: 'wb' or 'ab'
    downloaded_size,    \* download_export: the file size found on entry
    range_start,        \* download_export: the Range header sent, -1 if none
    content_length,     \* download_export: total_size read from the headers
    body,               \* download_export: the chunks still to be read
    caller,             \* download_export's caller: export_project or direct
    runs,               \* how many times export_project was invoked per project
    prev_outcome,       \* the outcome of each project's previous invocation
    non200,             \* how many of each job's polls were answered non-200
    last_poll,          \* what each job's latest poll reported
    w_pc,               \* the retry wrapper's position
    w_retries,          \* the wrapper's `retries` argument
    x,                  \* the wrapper's retry counter
    calls,              \* how many times the wrapper has invoked f
    w_status,           \* the status of the error the wrapper raised
    sleep,              \* the last backoff delay, in 1/JitterSteps seconds
    g_pc,               \* get_all_projects: its position
    page,               \* get_all_projects: the page number to request
    projects,           \* get_all_projects: the items accumulated
    api_semaphore,      \* the free API-class slots
    served,             \* the responses the listing endpoint has given
    projects_count,     \* instance.projects_count
    o_pc,               \* run_export: its position after the fan-out
    p_idx,              \* a pass: the project its for loop is at
    p_pc,               \* a pass: its position for that project
    p_left,             \* a pass: the wiki pages or snippets still to fetch
    p_page,             \* export_metadata: the page number to request
    inflight,           \* the requests of the passes awaiting a response
    wikis_exported,     \* stats.wikis_exported
    snippets_exported,  \* stats.snippets_exported
    reports,            \* how many times export_report.json was written
    r_pc,               \* run_export: running, raised or finished
    inst,               \* run_export: the instance its for loop is at
    stage,              \* how far run_export has come with each instance
    user_status,        \* validate_connection: the status of GET /user
    version_status,     \* validate_connection: the status of GET /version
    username,           \* whether instance.username and email were set
    version,            \* whether instance.version was set
    rate,               \* the value success_rate returned last
    rate_pc,            \* whether the counters changed since it was read
    project_path,       \* project['path_with_namespace'] of two projects
    export_file,        \* export_project: the export_file of each of them
    clock,              \* datetime.now(), in whole seconds
    export_dir,         \* exporter.export_dir: the timestamp in its name
    disk                \* the target files below each timestamped directory

vars == <<pc, download_semaphore, waiters, files, projects_exported,
          projects_failed, retries, total_size, failed_projects, attempt,
          outcome, result, requests, trigger_status, download_status,
          file_mode, downloaded_size, range_start, content_length, body,
          caller, runs, prev_outcome, non200, last_poll, w_pc, w_retries, x,
          calls, w_status,
          sleep, g_pc, page, projects, api_semaphore, served, projects_count,
          o_pc, p_idx, p_pc, p_left, p_page, inflight, wikis_exported,
          snippets_exported, reports, r_pc, inst, stage, user_status,
          version_status, username, version, rate, rate_pc, project_path,
          export_file, clock, export_dir, disk>>

retry_vars == <<w_pc, w_retries, x, calls, w_status, sleep>>
poll_log == <<non200, last_poll>>
job_ctx == <<caller, runs, prev_outcome, poll_log>>
page_vars == <<g_pc, page, projects, api_semaphore, served, projects_count>>
list_vars == <<g_pc, page, projects, served, projects_count>>
orch_vars == <<o_pc, p_idx, p_pc, p_left, p_page, inflight, wikis_exported,
               snippets_exported, reports>>
run_vars == <<r_pc, inst, stage, user_status, version_status, username,
              version>>
rate_vars == <<rate, rate_pc>>
path_vars == <<project_path, export_file>>
dir_vars == <<clock, export_dir, disk>>
aux_vars == <<run_vars, rate_vars, path_vars, dir_vars>>
other_vars == <<retry_vars, page_vars, orch_vars, aux_vars>>
batch_vars == <<pc, download_semaphore, waiters, files, projects_exported,
                projects_failed, total_size, failed_projects, attempt,
                outcome, result, requests, trigger_status, download_status,
                file_mode, downloaded_size, range_start, content_length,
                body, caller, runs, prev_outcome, non200, last_poll>>
stats_vars == <<projects_exported, projects_failed, retries, total_size>>
dl_vars == <<file_mode, downloaded_size, range_start, content_length, body,
             download_status>>

\* The files a fresh job may find: none, or an archive written before
\* (complete, or cut short by an interrupted download).
Prefixes == {SubSeq(Archive, 1, n) : n \in 0..ArchiveChunks}
InitialFiles == {NoFile} \cup {File(d) : d \in Prefixes}

\* GitLabAsyncExporter.__init__ and the list comprehension of run_export:
\* one coroutine per project, none started, every one of the `slots` slots
\* of the download semaphore free.
InitJobs(slots) ==
    /\ pc = [j \in Projects |-> "created"]
    /\ download_semaphore = slots
    /\ waiters = <<>>
    /\ files \in [Projects -> {NoFile, File(Archive)}]
    /\ projects_exported = 0
    /\ projects_failed = 0
    /\ retries = 0
    /\ total_size = 0
    /\ failed_projects = <<>>
    /\ attempt = [j \in Projects |-> 0]
    /\ outcome = [j \in Projects |-> "NONE"]
    /\ result = [j \in Projects |-> "pending"]
    /\ requests = [j \in Projects |-> 0]
    /\ trigger_status = [j \in Projects |-> -1]
    /\ download_status = [j \in Projects |-> -1]
    /\ file_mode = [j \in Projects |-> "none"]
    /\ downloaded_size = [j \in Projects |-> 0]
    /\ range_start = [j \in Projects |-> -1]
    /\ content_length = [j \in Projects |-> 0]
    /\ body = [j \in Projects |-> <<>>]
    /\ caller = [j \in Projects |-> "export_project"]
    /\ runs = [j \in Projects |-> 1]
    /\ prev_outcome = [j \in Projects |-> "NONE"]
    /\ non200 = [j \in Projects |-> 0]
    /\ last_poll = [j \in Projects |-> "none"]

\* Line 710: the exporter's download semaphore has
\* max_concurrent_downloads slots.
InitBatch == InitJobs(max_concurrent_downloads)

\* No wrapped operation of its own is under way.
RetryIdle ==
    /\ w_pc = "idle"
    /\ w_retries = 0
    /\ x = 0
    /\ calls = 0
    /\ w_status = -1
    /\ sleep = 0

\* No listing is under way.
PagesIdle ==
    /\ g_pc = "idle"
    /\ page = 1
    /\ projects = <<>>
    /\ api_semaphore = max_concurrent_api_calls
    /\ served = <<>>
    /\ projects_count = 0

\* The value 0 that success_rate returns for no projects, as a fraction.
Zero == [num |-> 0, den |-> 1]

\* success_rate has not been read.
RateIdle ==
    /\ rate = Zero
    /\ rate_pc = "unread"

\* The two projects whose target paths are compared.
PathPair == 1..2

\* No target path is being computed.
PathIdle ==
    /\ project_path = [k \in PathPair |-> <<>>]
    /\ export_file = [k \in PathPair |-> <<>>]

\* The seconds of the clock, and so the names export_dir can take.
Timestamps == 0..MaxClock

\* One exporter, created at second 0 over an empty export tree; `files`
\* holds the target files below its export_dir.
DirIdle ==
    /\ clock = 0
    /\ export_dir = 0
    /\ disk = [t \in Timestamps |-> [j \in Projects |-> NoFile]]

\* The entry of `files` that the export_file of project j names: projects
\* whose export_file is the same path have one file on disk between them.
FileOf(j) ==
    IF /\ j \in PathPair
       /\ export_file[j] # <<>>
       /\ \E k \in PathPair : k < j /\ export_file[k] = export_file[j]
    THEN CHOOSE k \in PathPair : k < j /\ export_file[k] = export_file[j]
    ELSE j

\* No instance is being processed.
RunIdle ==
    /\ r_pc = "idle"
    /\ inst = 1
    /\ stage = [i \in Instances |-> "selected"]
    /\ user_status = [i \in Instances |-> -1]
    /\ version_status = [i \in Instances |-> -1]
    /\ username = [i \in Instances |-> FALSE]
    /\ version = [i \in Instances |-> FALSE]

\* run_export at position pos, no pass begun, no report written.
PassesAt(pos) ==
    /\ o_pc = pos
    /\ p_idx = 1
    /\ p_pc = "next"
    /\ p_left = 0
    /\ p_page = 1
    /\ inflight = 0
    /\ wikis_exported = 0
    /\ snippets_exported = 0
    /\ reports = 0

\* run_export is not under way: the operation is called by itself.
OrchIdle ==
    RunIdle /\ RateIdle /\ PathIdle /\ DirIdle /\ PassesAt("idle")

\* run_export at line 719: it awaits the gather of the jobs it has created.
OrchAtGather ==
    RunIdle /\ RateIdle /\ PathIdle /\ DirIdle /\ PassesAt("gather")

Init == InitBatch /\ RetryIdle /\ PagesIdle /\ OrchAtGather

(***************************************************************************)
(* asyncio.Semaphore, as export_project uses it (async with semaphore).    *)
(***************************************************************************)
\* A semaphore that forgets to look at its value.
LockedValueIgnored == waiters # <<>>

\* Semaphore.locked(): no free slot, or somebody is already queued.
Locked == download_semaphore = 0 \/ waiters # <<>>

\* The jobs between acquiring the semaphore and leaving the async with block.
Holding == {j \in Projects : pc[j] \notin {"created", "waiting", "done"}}

\* A return that both frees the slot and hands it to the first waiter.
LeaveFreeingAndWaking(j, out, res) ==
    /\ outcome' = [outcome EXCEPT ![j] = out]
    /\ result' = [result EXCEPT ![j] = res]
    /\ attempt' = [attempt EXCEPT ![j] = 0]
    /\ download_semaphore' = download_semaphore + 1
    /\ IF waiters = <<>>
       THEN /\ waiters' = waiters
            /\ pc' = [pc EXCEPT ![j] = "done"]
       ELSE /\ waiters' = Tail(waiters)
            /\ pc' = [pc EXCEPT ![j] = "done", ![Head(waiters)] = "woken"]

\* A return that keeps the slot: nothing is released and nobody is woken.
LeaveKeepingSlot(j, out, res) ==
    /\ outcome' = [outcome EXCEPT ![j] = out]
    /\ result' = [result EXCEPT ![j] = res]
    /\ attempt' = [attempt EXCEPT ![j] = 0]
    /\ pc' = [pc EXCEPT ![j] = "done"]
    /\ UNCHANGED <<download_semaphore, waiters>>

\* Leaving the async with block (Semaphore.release) on return: the slot goes
\* to the first waiter if there is one, and is free otherwise.
Leave(j, out, res) ==
    /\ outcome' = [outcome EXCEPT ![j] = out]
    /\ result' = [result EXCEPT ![j] = res]
    /\ attempt' = [attempt EXCEPT ![j] = 0]
    /\ IF waiters = <<>>
       THEN /\ download_semaphore' = download_semaphore + 1
            /\ waiters' = waiters
            /\ pc' = [pc EXCEPT ![j] = "done"]
       ELSE /\ download_semaphore' = download_semaphore
            /\ waiters' = Tail(waiters)
            /\ pc' = [pc EXCEPT ![j] = "done", ![Head(waiters)] = "woken"]

(***************************************************************************)
(* export_project: the accounting at each return site.                     *)
(***************************************************************************)
\* An increment that writes back a value read before a suspension: it is
\* lost when another job is under way.
CountExportedLost ==
    /\ projects_exported' =
            IF Cardinality({i \in Projects :
                                pc[i] \notin {"created", "done"}}) > 1
            THEN projects_exported
            ELSE projects_exported + 1
    /\ UNCHANGED <<projects_failed, failed_projects>>

\* Lines 239-242 (already exported) and 283-289 with success: counted as
\* exported. The += reads and writes the counter with no await in between.
CountExported ==
    /\ projects_exported' = projects_exported + 1
    /\ UNCHANGED <<projects_failed, failed_projects>>

\* A failure that is counted and not appended to the list.
CountFailedNotListed(j) ==
    /\ projects_failed' = projects_failed + 1
    /\ UNCHANGED <<projects_exported, failed_projects>>

\* A failure that is counted once and appended twice.
CountFailedListedTwice(j) ==
    /\ projects_failed' = projects_failed + 1
    /\ failed_projects' = Append(Append(failed_projects, j), j)
    /\ UNCHANGED projects_exported

\* Lines 252-256, 260-264, 293-297, 301-305, 309-313: counted as failed and
\* appended to failed_projects.
CountFailedListed(j) ==
    /\ projects_failed' = projects_failed + 1
    /\ failed_projects' = Append(failed_projects, j)
    /\ UNCHANGED projects_exported

\* A failed download whose outcome is dropped.
CountFailedDownloadLost(j) ==
    UNCHANGED <<projects_exported, projects_failed, failed_projects>>

\* A failed download that is counted as an export.
CountFailedDownloadAsExported(j) ==
    /\ projects_exported' = projects_exported + 1
    /\ UNCHANGED <<projects_failed, failed_projects>>

\* Lines 285-286: a failed download is counted as failed; the project is not
\* appended to failed_projects.
CountFailedDownload(j) ==
    /\ projects_failed' = projects_failed + 1
    /\ UNCHANGED <<projects_exported, failed_projects>>

\* response.raise_for_status(): raises ClientResponseError for a status of
\* 400 and above; a connection error has raised before any status was seen.
Raises(status) == status = ConnError \/ status >= 400

\* Lines 245-246: the export trigger POST is issued and awaited.
IssueTrigger(j) ==
    /\ requests' = [requests EXCEPT ![j] = @ + 1]
    /\ UNCHANGED <<files, stats_vars, failed_projects, attempt, outcome,
                   result, trigger_status, dl_vars, job_ctx, other_vars>>

\* Lines 237-242: the target file exists; success without any request.
AlreadyExported(j) ==
    /\ CountExported
    /\ UNCHANGED <<files, retries, total_size, requests,
                   trigger_status, dl_vars, job_ctx, other_vars>>

\* The first step of a job (gather starts the coroutines in list order):
\* lines 226-246. With a free slot the job runs on to its first await, the
\* trigger POST, or returns at once when the file exists; otherwise it
\* queues in the semaphore.
Start(j) ==
    /\ pc[j] = "created"
    /\ \A i \in Projects : i < j => pc[i] # "created"
    /\ IF Locked
       THEN /\ waiters' = Append(waiters, j)
            /\ pc' = [pc EXCEPT ![j] = "waiting"]
            /\ UNCHANGED <<download_semaphore, files, stats_vars,
                           failed_projects, attempt, outcome, result,
                           requests, trigger_status, dl_vars, job_ctx,
                           other_vars>>
       ELSE IF Exists(files[FileOf(j)])
       THEN /\ AlreadyExported(j)
            /\ pc' = [pc EXCEPT ![j] = "done"]
            /\ outcome' = [outcome EXCEPT ![j] = "ALREADY_EXPORTED"]
            /\ result' = [result EXCEPT ![j] = "True"]
            /\ UNCHANGED <<download_semaphore, waiters, attempt>>
       ELSE /\ download_semaphore' = download_semaphore - 1
            /\ pc' = [pc EXCEPT ![j] = "trigger"]
            /\ IssueTrigger(j)
            /\ UNCHANGED waiters

\* A queued job that was handed a slot resumes: lines 227-246.
Resume(j) ==
    /\ pc[j] = "woken"
    /\ IF Exists(files[FileOf(j)])
       THEN /\ AlreadyExported(j)
            /\ Leave(j, "ALREADY_EXPORTED", "True")
       ELSE /\ pc' = [pc EXCEPT ![j] = "trigger"]
            /\ IssueTrigger(j)
            /\ UNCHANGED <<download_semaphore, waiters>>

\* A test that lets every 2xx status through.
AcceptedAny2xx(status) == status >= 200 /\ status < 300

\* Line 258: response.status in [200, 202], the trigger was accepted.
Accepted(status) == status \in {200, 202}

\* Lines 247-264 and 307-313: the trigger response arrives.
TriggerResponse(j, status) ==
    /\ pc[j] = "trigger"
    /\ trigger_status' = [trigger_status EXCEPT ![j] = status]
    /\ UNCHANGED <<files, retries, total_size, requests, dl_vars, job_ctx,
                   other_vars>>
    /\ IF Raises(status)
       THEN \* raise_for_status raised; caught by except Exception (307)
            /\ CountFailedListed(j)
            /\ Leave(j, "EXCEPTION", "False")
       ELSE IF status = 403
       THEN /\ CountFailedListed(j)
            /\ Leave(j, "FORBIDDEN", "False")
       ELSE IF ~Accepted(status)
       THEN /\ CountFailedListed(j)
            /\ Leave(j, "TRIGGER_REJECTED", "False")
       ELSE \* the poll loop starts: attempt 0, asyncio.sleep(5)
            /\ pc' = [pc EXCEPT ![j] = "sleep"]
            /\ attempt' = [attempt EXCEPT ![j] = 0]
            /\ UNCHANGED <<download_semaphore, waiters, projects_exported,
                           projects_failed, failed_projects, outcome, result>>

\* Lines 269-272: the poll sleep is over; the status GET is issued.
PollRequest(j) ==
    /\ pc[j] = "sleep"
    /\ pc' = [pc EXCEPT ![j] = "poll"]
    /\ requests' = [requests EXCEPT ![j] = @ + 1]
    /\ UNCHANGED <<download_semaphore, waiters, files, stats_vars,
                   failed_projects, attempt, outcome, result, trigger_status,
                   dl_vars, job_ctx, other_vars>>

\* A job that gives its slot back for the time of a poll wait.
SlotReleasedForWait ==
    /\ download_semaphore' = download_semaphore + 1
    /\ waiters' = waiters

\* Lines 226-313: the poll loop is inside the async with block; going round
\* it neither releases the slot nor takes one.
SlotKept == UNCHANGED <<download_semaphore, waiters>>

\* A loop that runs one iteration more than its budget.
NextAttemptOneMore(j, budget) ==
    IF attempt[j] + 1 <= budget
    THEN /\ attempt' = [attempt EXCEPT ![j] = @ + 1]
         /\ pc' = [pc EXCEPT ![j] = "sleep"]
         /\ UNCHANGED <<download_semaphore, waiters, projects_exported,
                        projects_failed, failed_projects, outcome, result>>
    ELSE /\ CountFailedListed(j)
         /\ Leave(j, "TIMED_OUT", "False")

\* The for loop of line 268 moves to its next iteration, or is exhausted:
\* lines 299-305, the timeout.
NextAttempt(j, budget) ==
    IF attempt[j] + 1 < budget
    THEN /\ attempt' = [attempt EXCEPT ![j] = @ + 1]
         /\ pc' = [pc EXCEPT ![j] = "sleep"]
         /\ SlotKept
         /\ UNCHANGED <<projects_exported, projects_failed, failed_projects,
                        outcome, result>>
    ELSE /\ CountFailedListed(j)
         /\ Leave(j, "TIMED_OUT", "False")

\* download_export, lines 318-333, called at line 282: the mode and the Range
\* header are chosen from the file on disk, and the download GET is issued.
DownloadCall(j) ==
    /\ file_mode' = [file_mode EXCEPT
                ![j] = IF Exists(files[FileOf(j)]) THEN "ab" ELSE "wb"]
    /\ downloaded_size' = [downloaded_size EXCEPT
                ![j] = IF Exists(files[FileOf(j)])
                       THEN Len(files[FileOf(j)].data) ELSE 0]
    /\ range_start' = [range_start EXCEPT
                ![j] = IF Exists(files[FileOf(j)])
                       THEN Len(files[FileOf(j)].data) ELSE -1]
    /\ requests' = [requests EXCEPT ![j] = @ + 1]
    /\ pc' = [pc EXCEPT ![j] = "download"]
    /\ UNCHANGED <<content_length, body, download_status>>

\* A non-200 poll that is tried again within the same attempt.
ContinueSameAttempt(j, budget) ==
    /\ pc' = [pc EXCEPT ![j] = "sleep"]
    /\ UNCHANGED <<attempt, download_semaphore, waiters, projects_exported,
                   projects_failed, failed_projects, outcome, result>>

\* Lines 274-275: `continue` takes the for loop to its next iteration.
Continue(j, budget) == NextAttempt(j, budget)

\* Lines 273-297 and 307-313: the poll response arrives. export_status is
\* read only from a 200 response.
PollStep(j, status, export_status, budget) ==
    /\ pc[j] = "poll"
    /\ UNCHANGED <<files, retries, total_size, trigger_status, caller, runs,
                   prev_outcome, other_vars>>
    /\ IF status = ConnError
       THEN \* the GET raised; caught by except Exception (307)
            /\ CountFailedListed(j)
            /\ Leave(j, "EXCEPTION", "False")
            /\ UNCHANGED <<requests, dl_vars>>
       ELSE IF status # 200
       THEN \* continue (line 275)
            /\ Continue(j, budget)
            /\ UNCHANGED <<requests, dl_vars>>
       ELSE IF export_status = "finished"
       THEN /\ DownloadCall(j)
            /\ UNCHANGED <<download_semaphore, waiters, projects_exported,
                           projects_failed, failed_projects, attempt,
                           outcome, result>>
       ELSE IF export_status = "failed"
       THEN /\ CountFailedListed(j)
            /\ Leave(j, "REMOTE_FAILED", "False")
            /\ UNCHANGED <<requests, dl_vars>>
       ELSE /\ NextAttempt(j, budget)
            /\ UNCHANGED <<requests, dl_vars>>

\* What a poll response reports: the export_status of a 200 response.
Report(status, export_status) ==
    IF status = ConnError THEN "raised"
    ELSE IF status # 200 THEN "non200"
    ELSE export_status

PollResponse(j, status, export_status, budget) ==
    /\ PollStep(j, status, export_status, budget)
    /\ UNCHANGED poll_log

\* The poll response arrives, and what it was is kept on record.
PollResponseLogged(j, status, export_status, budget) ==
    /\ PollStep(j, status, export_status, budget)
    /\ last_poll' = [last_poll EXCEPT ![j] = Report(status, export_status)]
    /\ non200' = [non200 EXCEPT
            ![j] = IF Report(status, export_status) = "non200"
                   THEN @ + 1 ELSE @]

(***************************************************************************)
(* download_export                                                         *)
(***************************************************************************)
\* What the remote sends as the body: from the requested offset with 206
\* (partial content), the whole archive with 200 (full content).
RemoteBody(status, start) ==
    IF status = 206
    THEN SubSeq(Archive, start + 1, Len(Archive))
    ELSE Archive

\* The statuses the remote can answer a download with: 206 only to a request
\* with a Range header that starts inside the archive.
DownloadAnswers(start) ==
    IF start >= 0 /\ start < Len(Archive)
    THEN DownloadStatuses
    ELSE DownloadStatuses \ {206}

\* open(export_file, file_mode), line 346: 'wb' creates or truncates the
\* file, 'ab' creates it if missing and keeps what it holds.
Open(f, mode) ==
    IF mode = "wb" \/ ~Exists(f) THEN File(<<>>) ELSE f

\* f.write(chunk), line 348, on a file opened 'ab': the chunk goes to the
\* end of the file.
Write(f, chunk) == File(Append(f.data, chunk))

\* f.write(chunk), line 348, on a file opened 'wb': the chunk goes to the
\* position of the file object, `offset` chunks from the start; a position
\* beyond the end of the file leaves a gap of zeros.
WriteAt(f, offset, chunk) ==
    File([i \in 1..(IF Len(f.data) > offset + 1
                    THEN Len(f.data) ELSE offset + 1) |->
            IF i = offset + 1 THEN chunk
            ELSE IF i <= Len(f.data) THEN f.data[i]
            ELSE 0])

\* The position of job j's file object: the chunks it has written since it
\* opened the file.
Position(j) ==
    Len(RemoteBody(download_status[j], range_start[j])) - Len(body[j])

\* download_export returns `success` to its caller. Called from
\* export_project (line 282) the job goes on, without an await, through
\* lines 283-289 and leaves; called by itself it is over.
DownloadReturns(j, success) ==
    IF caller[j] = "export_project"
    THEN IF success
         THEN /\ CountExported
              /\ Leave(j, "DONE", "True")
         ELSE /\ CountFailedDownload(j)
              /\ Leave(j, "DOWNLOAD_FAILED", "False")
    ELSE /\ pc' = [pc EXCEPT ![j] = "done"]
         /\ result' = [result EXCEPT ![j] = IF success THEN "True" ELSE "False"]
         /\ UNCHANGED <<download_semaphore, waiters, outcome, attempt,
                        projects_exported, projects_failed, failed_projects>>

\* Lines 333-346 and 359-361: the download response arrives. has_length
\* says whether it carries a Content-Length header.
DownloadResponse(j, status, has_length) ==
    /\ pc[j] = "download"
    /\ status \in DownloadAnswers(range_start[j])
    /\ download_status' = [download_status EXCEPT ![j] = status]
    /\ UNCHANGED <<retries, requests, trigger_status, file_mode,
                   downloaded_size, range_start, job_ctx, other_vars>>
    /\ IF Raises(status) \/ status = 403 \/ status \notin {200, 206}
       THEN \* raised and caught at 359, or rejected at 336-342: False
            /\ DownloadReturns(j, FALSE)
            /\ UNCHANGED <<files, total_size, content_length, body>>
       ELSE /\ content_length' = [content_length EXCEPT
                ![j] = IF has_length
                       THEN Len(RemoteBody(status, range_start[j])) ELSE 0]
            /\ body' = [body EXCEPT ![j] = RemoteBody(status, range_start[j])]
            /\ files' = [files EXCEPT ![FileOf(j)] = Open(@, file_mode[j])]
            /\ pc' = [pc EXCEPT ![j] = "stream"]
            /\ UNCHANGED <<download_semaphore, waiters, projects_exported,
                           projects_failed, failed_projects, total_size,
                           outcome, result, attempt>>

\* Lines 347-348: one chunk is read from the response and written.
StreamChunk(j) ==
    /\ pc[j] = "stream"
    /\ body[j] # <<>>
    /\ files' = [files EXCEPT
            ![FileOf(j)] = IF file_mode[j] = "ab"
                           THEN Write(@, Head(body[j]))
                           ELSE WriteAt(@, Position(j), Head(body[j]))]
    /\ body' = [body EXCEPT ![j] = Tail(@)]
    /\ UNCHANGED <<pc, download_semaphore, waiters, stats_vars,
                   failed_projects, attempt, outcome, result, requests,
                   trigger_status, download_status, file_mode,
                   downloaded_size, range_start, content_length, job_ctx,
                   other_vars>>

\* Lines 347 and 359-361: reading the body raises (the connection drops);
\* what was written stays on disk and download_export returns False.
StreamError(j) ==
    /\ pc[j] = "stream"
    /\ body[j] # <<>>
    /\ DownloadReturns(j, FALSE)
    /\ body' = [body EXCEPT ![j] = <<>>]
    /\ content_length' = [content_length EXCEPT ![j] = 0]
    /\ UNCHANGED <<files, retries, total_size, requests, trigger_status,
                   download_status, file_mode, downloaded_size, range_start,
                   job_ctx, other_vars>>

\* Lines 350-357: the body is read to its end; the Content-Length is added
\* to stats.total_size and download_export returns True.
StreamEnd(j) ==
    /\ pc[j] = "stream"
    /\ body[j] = <<>>
    /\ total_size' = total_size + content_length[j]
    /\ DownloadReturns(j, TRUE)
    /\ content_length' = [content_length EXCEPT ![j] = 0]
    /\ UNCHANGED <<files, retries, requests, trigger_status, body,
                   download_status, file_mode, downloaded_size, range_start,
                   job_ctx, other_vars>>

(***************************************************************************)
(* The batch of run_export, lines 713-719: every job of the list, run by   *)
(* asyncio.gather under the download semaphore.                            *)
(***************************************************************************)
\* The batch draws the accepted trigger from 202 alone and gives every
\* download a Content-Length; SpecRerun and SpecDownload draw them all.
BatchTriggerStatuses == TriggerStatuses \ {200}

Next ==
    \/ \E j \in Projects : Start(j)
    \/ \E j \in Projects : Resume(j)
    \/ \E j \in Projects, status \in BatchTriggerStatuses :
            TriggerResponse(j, status)
    \/ \E j \in Projects : PollRequest(j)
    \/ \E j \in Projects, status \in PollStatuses, es \in ExportStatuses :
            PollResponse(j, status, es, PollBudget)
    \/ \E j \in Projects, status \in DownloadStatuses :
            DownloadResponse(j, status, TRUE)
    \/ \E j \in Projects : StreamChunk(j)
    \/ \E j \in Projects : StreamError(j)
    \/ \E j \in Projects : StreamEnd(j)

Spec == Init /\ [][Next]_vars

\* gather has returned: every job of the batch has returned.
BatchDone == \A j \in Projects : pc[j] = "done"

(***************************************************************************)
(* The same exporter used again: export_project invoked once more for a    *)
(* project whose earlier invocation has returned. The files, the           *)
(* statistics and failed_projects are those the exporter has by then.      *)
(***************************************************************************)
Rerun(j) ==
    /\ pc[j] = "done"
    /\ runs[j] < MaxRuns
    /\ pc' = [pc EXCEPT ![j] = "created"]
    /\ runs' = [runs EXCEPT ![j] = @ + 1]
    /\ prev_outcome' = [prev_outcome EXCEPT ![j] = outcome[j]]
    /\ outcome' = [outcome EXCEPT ![j] = "NONE"]
    /\ result' = [result EXCEPT ![j] = "pending"]
    /\ requests' = [requests EXCEPT ![j] = 0]
    /\ trigger_status' = [trigger_status EXCEPT ![j] = -1]
    /\ download_status' = [download_status EXCEPT ![j] = -1]
    /\ file_mode' = [file_mode EXCEPT ![j] = "none"]
    /\ downloaded_size' = [downloaded_size EXCEPT ![j] = 0]
    /\ range_start' = [range_start EXCEPT ![j] = -1]
    /\ UNCHANGED <<download_semaphore, waiters, files, stats_vars,
                   failed_projects, attempt, content_length, body, caller,
                   poll_log, other_vars>>

\* One project, exported by the same exporter up to MaxRuns times.
NextRerun ==
    \/ Start(1)
    \/ \E status \in TriggerStatuses : TriggerResponse(1, status)
    \/ PollRequest(1)
    \/ \E status \in PollStatuses, es \in ExportStatuses :
            PollResponse(1, status, es, PollBudget)
    \/ \E status \in DownloadStatuses, has_length \in BOOLEAN :
            DownloadResponse(1, status, has_length)
    \/ StreamChunk(1)
    \/ StreamError(1)
    \/ StreamEnd(1)
    \/ Rerun(1)

SpecRerun == Init /\ [][NextRerun]_vars

(***************************************************************************)
(* run_export from the fan-out to the report, lines 709-747, for one       *)
(* instance whose project list is in hand: the gather of the jobs, then    *)
(* export_wikis, export_snippets and export_metadata, then the report.     *)
(* The passes are cut at their awaits and at the top of their for loops.   *)
(***************************************************************************)
\* What the passes leave alone.
pass_frame == <<batch_vars, retries, retry_vars, list_vars, reports,
                aux_vars>>

\* A gather that returns with the first job that returns.
GatherFirstCompleted == \E j \in Projects : pc[j] = "done"

\* A gather that a failing job ends at once, as a raising job would.
GatherFirstFailure == BatchDone \/ \E j \in Projects : result[j] = "False"

\* Line 719: await asyncio.gather(*export_tasks) returns when every job has
\* returned.
GatherDone == BatchDone

\* Lines 719-723: the gather returns and export_wikis is called.
GatherReturns ==
    /\ o_pc = "gather"
    /\ GatherDone
    /\ o_pc' = "wikis"
    /\ p_idx' = 1
    /\ p_pc' = "next"
    /\ UNCHANGED <<pass_frame, api_semaphore, p_left, p_page, inflight,
                   wikis_exported, snippets_exported>>

\* A pass goes on to its next project (the slot of the async with block, if
\* one is held, is released on the way).
NextProject(slots) ==
    /\ p_idx' = p_idx + 1
    /\ p_pc' = "next"
    /\ p_left' = 0
    /\ p_page' = 1
    /\ api_semaphore' = api_semaphore + slots

\* A request of a pass is issued and awaited.
Issue == inflight' = inflight + 1

\* The response to the one request of the pass in flight has arrived.
Answer == inflight' = inflight - 1

\* Lines 367-379 and 408, lines 414-420 and 452: the top of the for loop of
\* export_wikis and of export_snippets. The loop is over and the next pass
\* is called, or the project is skipped (wiki_enabled is false), or a slot
\* is taken and the listing GET issued.
ListPassNext(pass, next_pass, enabled) ==
    /\ o_pc = pass
    /\ p_pc = "next"
    /\ UNCHANGED <<pass_frame, p_left, p_page, wikis_exported,
                   snippets_exported>>
    /\ IF p_idx > NumProjects
       THEN /\ o_pc' = next_pass
            /\ p_idx' = 1
            /\ UNCHANGED <<p_pc, api_semaphore, inflight>>
       ELSE IF ~enabled
       THEN /\ p_idx' = p_idx + 1
            /\ UNCHANGED <<o_pc, p_pc, api_semaphore, inflight>>
       ELSE /\ api_semaphore > 0
            /\ api_semaphore' = api_semaphore - 1
            /\ Issue
            /\ p_pc' = "list"
            /\ UNCHANGED <<o_pc, p_idx>>

\* Lines 380-396 and 405-406, lines 421-435 and 449-450: the listing of the
\* wiki pages or the snippets of the project arrives. With n > 0 items the
\* GET of the first one is issued, the slot still held.
ListPassList(pass, status, n) ==
    /\ o_pc = pass
    /\ p_pc = "list"
    /\ UNCHANGED <<pass_frame, o_pc, wikis_exported, snippets_exported>>
    /\ IF status # 200 \/ n = 0
       THEN /\ Answer
            /\ NextProject(1)
       ELSE /\ p_left' = n
            /\ p_pc' = "item"
            /\ inflight' = inflight
            /\ UNCHANGED <<p_idx, p_page, api_semaphore>>

\* Lines 396-403 and 405-406: a wiki page arrives and, with 200, is
\* written. After the last page the wiki is counted.
WikiPage(status) ==
    /\ o_pc = "wikis"
    /\ p_pc = "item"
    /\ UNCHANGED <<pass_frame, o_pc, snippets_exported>>
    /\ IF status = ConnError
       THEN /\ Answer
            /\ NextProject(1)
            /\ UNCHANGED wikis_exported
       ELSE IF p_left > 1
       THEN /\ p_left' = p_left - 1
            /\ UNCHANGED <<p_idx, p_pc, p_page, api_semaphore, inflight,
                           wikis_exported>>
       ELSE /\ wikis_exported' = wikis_exported + 1
            /\ Answer
            /\ NextProject(1)

\* Lines 435-450: the raw content of a snippet arrives and, with 200, is
\* written and counted.
SnippetRaw(status) ==
    /\ o_pc = "snippets"
    /\ p_pc = "item"
    /\ UNCHANGED <<pass_frame, o_pc, wikis_exported>>
    /\ IF status = ConnError
       THEN /\ Answer
            /\ NextProject(1)
            /\ UNCHANGED snippets_exported
       ELSE /\ snippets_exported' =
                    snippets_exported + (IF status = 200 THEN 1 ELSE 0)
            /\ IF p_left > 1
               THEN /\ p_left' = p_left - 1
                    /\ UNCHANGED <<p_idx, p_pc, p_page, api_semaphore,
                                   inflight>>
               ELSE /\ Answer
                    /\ NextProject(1)

\* Lines 459-473 and 725-747: the top of the for loop of export_metadata.
\* The loop is over and run_export goes on to the report, or the GET of the
\* first page of issues is issued under a slot, or the project has no
\* issues enabled.
MetadataNext(issues_enabled) ==
    /\ o_pc = "metadata"
    /\ p_pc = "next"
    /\ UNCHANGED <<pass_frame, p_left, wikis_exported, snippets_exported>>
    /\ IF p_idx > NumProjects
       THEN /\ o_pc' = "report"
            /\ UNCHANGED <<p_idx, p_pc, p_page, api_semaphore, inflight>>
       ELSE IF issues_enabled
       THEN /\ api_semaphore > 0
            /\ api_semaphore' = api_semaphore - 1
            /\ Issue
            /\ p_pc' = "issues"
            /\ p_page' = 1
            /\ UNCHANGED <<o_pc, p_idx>>
       ELSE /\ p_pc' = "after_issues"
            /\ UNCHANGED <<o_pc, p_idx, p_page, api_semaphore, inflight>>

\* Lines 474-480 and 507-508: a page of issues arrives. A page with items
\* is followed by the GET of the next page, under a slot taken anew.
IssuesPage(status, n) ==
    /\ o_pc = "metadata"
    /\ p_pc = "issues"
    /\ (status = 200 /\ n > 0) => p_page < MaxPages
    /\ UNCHANGED <<pass_frame, o_pc, p_left, wikis_exported,
                   snippets_exported>>
    /\ IF status = ConnError
       THEN /\ Answer
            /\ NextProject(1)
       ELSE IF status # 200 \/ n = 0
       THEN /\ Answer
            /\ p_pc' = "after_issues"
            /\ api_semaphore' = api_semaphore + 1
            /\ UNCHANGED <<p_idx, p_page>>
       ELSE /\ p_page' = p_page + 1
            /\ UNCHANGED <<p_idx, p_pc, api_semaphore, inflight>>

\* Lines 482-494: the issues are written; the GET of the first page of
\* merge requests is issued, without a slot, or the project has none
\* enabled.
MergeRequestsStart(merge_requests_enabled) ==
    /\ o_pc = "metadata"
    /\ p_pc = "after_issues"
    /\ UNCHANGED <<pass_frame, o_pc, p_left, wikis_exported,
                   snippets_exported>>
    /\ IF merge_requests_enabled
       THEN /\ Issue
            /\ p_pc' = "mrs"
            /\ p_page' = 1
            /\ UNCHANGED <<p_idx, api_semaphore>>
       ELSE /\ NextProject(0)
            /\ UNCHANGED inflight

\* Lines 495-508: a page of merge requests arrives.
MergeRequestsPage(status, n) ==
    /\ o_pc = "metadata"
    /\ p_pc = "mrs"
    /\ (status = 200 /\ n > 0) => p_page < MaxPages
    /\ UNCHANGED <<pass_frame, o_pc, p_left, wikis_exported,
                   snippets_exported>>
    /\ IF status # 200 \/ n = 0
       THEN /\ Answer
            /\ NextProject(0)
       ELSE /\ p_page' = p_page + 1
            /\ UNCHANGED <<p_idx, p_pc, api_semaphore, inflight>>

\* Lines 728-747: the report is built from the statistics and written.
WriteReport ==
    /\ o_pc = "report"
    /\ o_pc' = "finished"
    /\ reports' = reports + 1
    /\ UNCHANGED <<batch_vars, retries, retry_vars, page_vars, aux_vars,
                   p_idx, p_pc, p_left, p_page, inflight, wikis_exported,
                   snippets_exported>>

\* The trigger is accepted or forbidden, the export finishes or fails, the
\* download is answered 200 or 500.
NextOrch ==
    \/ \E j \in Projects : Start(j)
    \/ \E j \in Projects : Resume(j)
    \/ \E j \in Projects, status \in {202, 403} : TriggerResponse(j, status)
    \/ \E j \in Projects : PollRequest(j)
    \/ \E j \in Projects, es \in {"finished", "failed"} :
            PollResponse(j, 200, es, PollBudget)
    \/ \E j \in Projects, status \in {200, 500} :
            DownloadResponse(j, status, TRUE)
    \/ \E j \in Projects : StreamChunk(j)
    \/ \E j \in Projects : StreamEnd(j)
    \/ GatherReturns
    \/ \E enabled \in BOOLEAN : ListPassNext("wikis", "snippets", enabled)
    \/ \E status \in PassStatuses, n \in 0..MaxPageSize :
            ListPassList("wikis", status, n)
    \/ \E status \in PassStatuses : WikiPage(status)
    \/ ListPassNext("snippets", "metadata", TRUE)
    \/ \E status \in PassStatuses, n \in 0..MaxPageSize :
            ListPassList("snippets", status, n)
    \/ \E status \in PassStatuses : SnippetRaw(status)
    \/ \E issues_enabled \in BOOLEAN : MetadataNext(issues_enabled)
    \/ \E status \in PassStatuses, n \in 0..1 : IssuesPage(status, n)
    \/ \E enabled \in BOOLEAN : MergeRequestsStart(enabled)
    \/ \E status \in PassStatuses, n \in 0..1 : MergeRequestsPage(status, n)
    \/ WriteReport

SpecOrch == Init /\ [][NextOrch]_vars

\* The passes in the order run_export calls them (lines 723-725), between
\* the gather and the report.
PassOrder ==
    {<<"gather", "wikis">>, <<"wikis", "snippets">>,
     <<"snippets", "metadata">>, <<"metadata", "report">>,
     <<"report", "finished">>}

Passes == {"wikis", "snippets", "metadata"}

\* C14: no request of the wiki, snippet or metadata pass is issued or in
\* flight while a job of the batch has not returned; the passes run one
\* after another, wikis, then snippets, then metadata, each ending with no
\* request in flight; at most one request of the passes is in flight.
C14_PassesAfterJobsInTurn ==
    [][/\ inflight' <= 1
       /\ inflight' > 0 => (BatchDone' /\ o_pc' \in Passes)
       /\ inflight' > inflight => (BatchDone /\ o_pc \in Passes /\ o_pc' = o_pc)
       /\ o_pc' # o_pc => (<<o_pc, o_pc'>> \in PassOrder /\ inflight = 0)
       /\ o_pc' \in Passes => BatchDone']_vars

\* A request of the metadata pass is in flight after wikis and snippets were
\* exported, in a batch one job of which failed.
C14_Witness ==
    /\ o_pc = "metadata"
    /\ inflight = 1
    /\ wikis_exported > 0
    /\ snippets_exported > 0
    /\ projects_failed > 0

\* The steps job j can take in SpecOrch.
JobStep(j) ==
    \/ Start(j)
    \/ Resume(j)
    \/ \E status \in {202, 403} : TriggerResponse(j, status)
    \/ PollRequest(j)
    \/ \E es \in {"finished", "failed"} : PollResponse(j, 200, es, PollBudget)
    \/ \E status \in {200, 500} : DownloadResponse(j, status, TRUE)
    \/ StreamChunk(j)
    \/ StreamEnd(j)

\* C15: run_export is past the gather only when every job of the batch has
\* returned True or False. A job that has not returned is never stopped by
\* the failure of another: it can take its next step, or it is the turn of a
\* job created before it, or it waits for a slot held by a job that can take
\* its next step.
C15_GatherWaitsForAll ==
    /\ o_pc # "gather" =>
            (BatchDone /\ \A j \in Projects : result[j] \in {"True", "False"})
    /\ \A j \in Projects :
            pc[j] # "done" =>
                \/ ENABLED JobStep(j)
                \/ /\ pc[j] = "created"
                   /\ \E i \in Projects : i < j /\ ENABLED JobStep(i)
                \/ /\ pc[j] = "waiting"
                   /\ \E i \in 1..Len(waiters) : waiters[i] = j
                   /\ \E k \in Holding : ENABLED JobStep(k)

\* run_export has gone past the gather of a batch whose first job failed on
\* its trigger and whose last job, started after that failure, downloaded
\* its archive.
C15_Witness ==
    /\ o_pc \in Passes
    /\ outcome[1] = "EXCEPTION"
    /\ outcome[NumProjects] = "DONE"
    /\ requests[NumProjects] = 3
    /\ failed_projects = <<1>>

(***************************************************************************)
(* run_export from the top of its loop over the selected instances, lines  *)
(* 668-694: an exporter is made for the instance, its connection is        *)
(* validated (validate_connection, lines 149-171) and the project listing  *)
(* is called with api_semaphore. That name is assigned in run_export (line *)
(* 711) and so is a local of it, unbound when line 694 reads it: Python    *)
(* raises UnboundLocalError, which leaves run_export.                      *)
(***************************************************************************)
UserStatuses == {200, 401, 500, ConnError}
VersionStatuses == {200, 500, ConnError}

\* The first instance is taken and its GET /user issued.
InitRun ==
    /\ InitBatch
    /\ files = [j \in Projects |-> NoFile]
    /\ RetryIdle
    /\ PagesIdle
    /\ PassesAt("idle")
    /\ RateIdle
    /\ PathIdle
    /\ DirIdle
    /\ r_pc = "running"
    /\ inst = 1
    /\ stage = [i \in Instances |-> IF i = 1 THEN "user" ELSE "selected"]
    /\ user_status = [i \in Instances |-> -1]
    /\ version_status = [i \in Instances |-> -1]
    /\ username = [i \in Instances |-> FALSE]
    /\ version = [i \in Instances |-> FALSE]

\* A loop that a failed connection ends.
NextInstanceNone(i) == NumInstances + 1

\* Lines 682 and 668: `continue` takes the for loop to the next instance.
NextInstance(i) == i + 1

\* Lines 680-682, 668-680 and 152: validate_connection returned False for
\* instance i; the loop goes on to the next instance, whose GET /user is
\* issued, or is over.
ConnectionFailed(i) ==
    /\ inst' = NextInstance(i)
    /\ IF NextInstance(i) \in Instances
       THEN /\ stage' = [stage EXCEPT ![i] = "failed",
                                      ![NextInstance(i)] = "user"]
            /\ r_pc' = r_pc
       ELSE /\ stage' = [stage EXCEPT ![i] = "failed"]
            /\ r_pc' = "finished"

\* What the steps of the validation leave alone.
run_frame == <<batch_vars, retries, retry_vars, page_vars, orch_vars,
               rate_vars, path_vars, dir_vars>>

\* Lines 152-159 and 166-171: the response to GET /user. With 200 the
\* username and email are stored and GET /version is issued.
UserResponse(status) ==
    /\ r_pc = "running"
    /\ stage[inst] = "user"
    /\ user_status' = [user_status EXCEPT ![inst] = status]
    /\ UNCHANGED <<run_frame, version_status, version>>
    /\ IF status = 200
       THEN /\ username' = [username EXCEPT ![inst] = TRUE]
            /\ stage' = [stage EXCEPT ![inst] = "version"]
            /\ UNCHANGED <<r_pc, inst>>
       ELSE /\ ConnectionFailed(inst)
            /\ UNCHANGED username

\* Lines 159-171 and 680-694: the response to GET /version. A request that
\* raises makes validate_connection return False. Otherwise it returns True
\* (the version is stored from a 200) and run_export goes on to line 694,
\* where reading api_semaphore raises UnboundLocalError.
VersionResponse(status) ==
    /\ r_pc = "running"
    /\ stage[inst] = "version"
    /\ version_status' = [version_status EXCEPT ![inst] = status]
    /\ UNCHANGED <<run_frame, user_status, username>>
    /\ IF status = ConnError
       THEN /\ ConnectionFailed(inst)
            /\ UNCHANGED version
       ELSE /\ version' = [version EXCEPT ![inst] = (status = 200)]
            /\ stage' = [stage EXCEPT ![inst] = "raised"]
            /\ r_pc' = "raised"
            /\ UNCHANGED inst

NextRun ==
    \/ \E status \in UserStatuses : UserResponse(status)
    \/ \E status \in VersionStatuses : VersionResponse(status)

SpecRun == InitRun /\ [][NextRun]_vars

\* validate_connection returned True for instance i.
Validated(i) ==
    /\ user_status[i] = 200
    /\ version_status[i] \notin {-1, ConnError}

\* C16: when run_export is over, the report of every instance whose
\* connection validation succeeded has been written, once.
C16_ReportOncePerValidated ==
    r_pc \in {"raised", "finished"} =>
        \A i \in Instances : Validated(i) => stage[i] = "reported"

\* C17: when validate_connection fails for an instance, nothing is listed,
\* exported or reported for it and run_export is not left because of it:
\* the loop is at a later instance, the next one has been taken up as the
\* first one is (its GET /user issued), or the run is over after the last.
C17_FailedInstanceSkipped ==
    \A i \in Instances :
        stage[i] = "failed" =>
            /\ ~Validated(i)
            /\ inst > i
            /\ i < NumInstances => stage[i + 1] # "selected"
            /\ i = NumInstances => r_pc = "finished"
            /\ r_pc = "raised" => (inst \in Instances /\ Validated(inst))
            /\ g_pc = "idle"
            /\ reports = 0
            /\ \A j \in Projects : pc[j] = "created" /\ requests[j] = 0

\* The first instance failed validation and the second one has passed it.
C17_Witness ==
    /\ stage[1] = "failed"
    /\ Validated(2)
    /\ stage[2] = "raised"

(***************************************************************************)
(* ExportStats.success_rate, lines 93-96, read at any time while the       *)
(* counters go up. The quotient of Python's true division is kept as an    *)
(* exact fraction.                                                         *)
(***************************************************************************)
RECURSIVE Gcd(_, _)
Gcd(a, b) == IF b = 0 THEN a ELSE Gcd(b, a % b)

\* The fraction n/d, d > 0, in lowest terms.
Frac(n, d) == [num |-> n \div Gcd(n, d), den |-> d \div Gcd(n, d)]

\* a / b and q * k of line 96.
Divide(a, b) == Frac(a, b)
Times(q, k) == Frac(q.num * k, q.den)

\* A total that leaves the failures out.
TotalExportedOnly(exported, failed) == exported

\* Line 95: total = self.projects_exported + self.projects_failed.
Total(exported, failed) == exported + failed

\* Lines 93-96: the property is computed from the counters at each access.
success_rate ==
    IF Total(projects_exported, projects_failed) > 0
    THEN Times(Divide(projects_exported,
                      Total(projects_exported, projects_failed)), 100)
    ELSE Zero

\* A fresh ExportStats.
InitRate ==
    /\ InitBatch
    /\ files = [j \in Projects |-> NoFile]
    /\ RetryIdle
    /\ PagesIdle
    /\ OrchIdle

rate_frame == <<pc, download_semaphore, waiters, files, total_size,
                failed_projects, attempt, outcome, result, requests,
                trigger_status, dl_vars, job_ctx, retries, retry_vars,
                page_vars, orch_vars, run_vars, path_vars, dir_vars>>

\* stats.projects_exported += 1 (lines 240 and 284).
ProjectExported ==
    /\ projects_exported < MaxCount
    /\ projects_exported' = projects_exported + 1
    /\ rate_pc' = "stale"
    /\ UNCHANGED <<rate_frame, projects_failed, rate>>

\* stats.projects_failed += 1 (lines 253, 261, 286, 294, 302, 309).
ProjectFailed ==
    /\ projects_failed < MaxCount
    /\ projects_failed' = projects_failed + 1
    /\ rate_pc' = "stale"
    /\ UNCHANGED <<rate_frame, projects_exported, rate>>

\* stats.success_rate is read (lines 547, 740, 761).
ReadRate ==
    /\ rate' = success_rate
    /\ rate_pc' = "read"
    /\ UNCHANGED <<rate_frame, projects_exported, projects_failed>>

NextRate == ProjectExported \/ ProjectFailed \/ ReadRate

SpecRate == InitRate /\ [][NextRate]_vars

\* C20: the value success_rate returns is projects_exported /
\* (projects_exported + projects_failed) * 100 of the counters as they are
\* when it is read, and 0 when both are 0.
C20_SuccessRate ==
    rate_pc = "read" =>
        IF projects_exported + projects_failed > 0
        THEN /\ rate.den > 0
             /\ rate.num * (projects_exported + projects_failed)
                    = 100 * projects_exported * rate.den
        ELSE rate.num = 0

\* One project of three was exported: the rate read is 100/3.
C20_Witness ==
    /\ rate_pc = "read"
    /\ projects_exported = 1
    /\ projects_failed = 2
    /\ rate = [num |-> 100, den |-> 3]

(***************************************************************************)
(* One export_project job with the poll budget of the code, max_attempts = *)
(* 120, and a record of what its polls were answered.                      *)
(***************************************************************************)
InitPoll ==
    /\ Init
    /\ files = [j \in Projects |-> NoFile]

\* The downloads of this specification are answered 200 or 500.
NextPoll ==
    \/ Start(1)
    \/ \E status \in TriggerStatuses : TriggerResponse(1, status)
    \/ PollRequest(1)
    \/ \E status \in PollStatuses, es \in ExportStatuses :
            PollResponseLogged(1, status, es, max_attempts)
    \/ \E status \in {200, 500} : DownloadResponse(1, status, TRUE)
    \/ StreamChunk(1)
    \/ StreamError(1)
    \/ StreamEnd(1)

SpecPoll == InitPoll /\ [][NextPoll]_vars

\* The status polls job j has issued: its requests but the trigger and the
\* download.
Polls(j) ==
    IF requests[j] = 0 THEN 0
    ELSE requests[j] - 1 - (IF file_mode[j] = "none" THEN 0 ELSE 1)

\* The polls of job j that have been answered.
Answered(j) == Polls(j) - (IF pc[j] = "poll" THEN 1 ELSE 0)

\* C12 as stated: a non-200 poll does not consume the poll budget, so a job
\* times out only after 120 polls answered 200.
C12_Non200PollsAreFree ==
    \A j \in Projects :
        outcome[j] = "TIMED_OUT" => Polls(j) - non200[j] = max_attempts

\* C12: a non-200 poll consumes one attempt of the poll budget like any
\* other poll. While a job polls, its attempt counter is the number of polls
\* answered, the non-200 ones included; a job that times out has issued 120
\* polls in all, 120 - k of them answered 200 when k were not.
C12_Non200PollsConsumeBudget ==
    \A j \in Projects :
        /\ pc[j] \in {"sleep", "poll"} => attempt[j] = Answered(j)
        /\ outcome[j] = "TIMED_OUT" => Polls(j) = max_attempts

\* A job has timed out after polls of both kinds.
C12_Witness ==
    \E j \in Projects :
        /\ outcome[j] = "TIMED_OUT"
        /\ non200[j] > 0
        /\ non200[j] < max_attempts
        /\ last_poll[j] = "started"

\* C13: a job whose polls are all answered and never report 'finished' or
\* 'failed' issues at most 120 polls and starts no download; when it has
\* returned it has timed out after 120 polls, is counted in projects_failed
\* and is in failed_projects.
C13_TimesOutAfterBudget ==
    \A j \in Projects :
        /\ Polls(j) <= max_attempts
        /\ last_poll[j] \in {"started", "non200"} =>
            /\ file_mode[j] = "none"
            /\ download_status[j] = -1
            /\ pc[j] \in {"sleep", "poll", "done"}
            /\ pc[j] = "done" =>
                /\ outcome[j] = "TIMED_OUT"
                /\ result[j] = "False"
                /\ Polls(j) = max_attempts
                /\ projects_failed = 1
                /\ projects_exported = 0
                /\ failed_projects = <<j>>

\* A job has timed out after 120 polls, all answered 200 and in progress.
C13_Witness ==
    \E j \in Projects :
        /\ pc[j] = "done"
        /\ outcome[j] = "TIMED_OUT"
        /\ last_poll[j] = "started"
        /\ non200[j] = 0
        /\ Polls(j) = max_attempts

(***************************************************************************)
(* async_retry_with_backoff, lines 39-62: the wrapper around an operation  *)
(* f. Each invocation of f returns, raises ClientResponseError with a      *)
(* status, or raises another exception (ConnError).                        *)
(***************************************************************************)
ErrorStatuses == {403, 429, 500, ConnError}

\* b to the power n.
RECURSIVE Pow(_, _)
Pow(b, n) == IF n = 0 THEN 1 ELSE b * Pow(b, n - 1)

\* A handler that takes every error status for a rate limit.
RateLimitedAny(status) == status >= 400

\* Lines 48-49: except aiohttp.ClientResponseError as e, e.status == 429.
RateLimited(status) == status = 429

\* A retry test that is off by one.
MayRetryOnceMore(n, limit) == n <= limit

\* Line 50: x < retries.
MayRetry(n, limit) == n < limit

\* A delay that does not grow with the retries: the base and the jitter.
BackoffFlat(n, jitter) == JitterSteps * backoff_in_seconds + jitter

\* Line 51: backoff_in_seconds * 2 ** x + random.random(), in units of
\* 1/JitterSteps seconds, for the jitter value jitter/JitterSteps.
Backoff(n, jitter) == JitterSteps * backoff_in_seconds * Pow(2, n) + jitter

\* The wrapper is applied with a retries argument and called: lines 43-47,
\* the first invocation of f.
InitRetry ==
    /\ InitBatch
    /\ files = [j \in Projects |-> NoFile]
    /\ retries = 0
    /\ w_pc = "call"
    /\ w_retries \in 0..retries_default
    /\ x = 0
    /\ calls = 1
    /\ w_status = -1
    /\ sleep = 0
    /\ PagesIdle
    /\ OrchIdle

\* Line 47: f returns, and so does the wrapper.
OperationReturns ==
    /\ w_pc = "call"
    /\ w_pc' = "returned"
    /\ UNCHANGED <<batch_vars, page_vars, orch_vars, aux_vars, retries,
                   w_retries, x, calls, w_status, sleep>>

\* A retry that is not counted.
RetryNotCounted == retries' = retries

\* Line 53: self.stats.retries += 1.
RetryCounted == retries' = retries + 1

\* Lines 48-60: f raises. A 429 below the limit is logged, counted in
\* stats.retries and followed by the backoff sleep; anything else is raised
\* to the caller.
OperationRaises(status, jitter) ==
    /\ w_pc = "call"
    /\ IF RateLimited(status) /\ MayRetry(x, w_retries)
       THEN /\ sleep' = Backoff(x, jitter)
            /\ RetryCounted
            /\ w_pc' = "sleep"
            /\ UNCHANGED w_status
       ELSE /\ jitter = 0
            /\ w_pc' = "raised"
            /\ w_status' = status
            /\ UNCHANGED <<retries, sleep>>
    /\ UNCHANGED <<batch_vars, page_vars, orch_vars, aux_vars, w_retries, x,
                   calls>>

\* Lines 54-55 and 45-47: the sleep is over, x is incremented and f is
\* invoked again.
RetryAfterSleep ==
    /\ w_pc = "sleep"
    /\ x' = x + 1
    /\ calls' = calls + 1
    /\ w_pc' = "call"
    /\ UNCHANGED <<batch_vars, page_vars, orch_vars, aux_vars, retries,
                   w_retries, w_status, sleep>>

NextRetry ==
    \/ OperationReturns
    \/ \E status \in ErrorStatuses, jitter \in 0..(JitterSteps - 1) :
            OperationRaises(status, jitter)
    \/ RetryAfterSleep

SpecRetry == InitRetry /\ [][NextRetry]_vars

\* C7: an operation wrapped with retries = R whose every attempt raises 429
\* is invoked at most R + 1 times, and then the 429 is raised to the caller;
\* there is no invocation R + 2.
C7_AtMostRetriesPlusOne ==
    /\ calls <= w_retries + 1
    /\ (w_pc = "raised" /\ w_status = 429) => calls = w_retries + 1

\* With the default limit, the 429 has been raised after six invocations.
C7_Witness ==
    /\ w_retries = retries_default
    /\ w_pc = "raised"
    /\ w_status = 429
    /\ calls = retries_default + 1

\* C9: when f raises an error that is not a 429, the wrapper raises it at
\* once: f is not invoked again, there is no backoff sleep and stats.retries
\* is unchanged.
C9_OtherErrorsNotRetried ==
    [][\A status \in ErrorStatuses \ {429} :
          (\E jitter \in 0..(JitterSteps - 1) : OperationRaises(status, jitter))
          => /\ w_pc' = "raised"
             /\ w_status' = status
             /\ calls' = calls
             /\ retries' = retries
             /\ sleep' = sleep
             /\ x' = x]_vars

\* A 403 raised to the caller after earlier 429s had been retried.
C9_Witness ==
    /\ w_pc = "raised"
    /\ w_status = 403
    /\ x > 0
    /\ calls = x + 1
    /\ retries = x

(***************************************************************************)
(* download_export called by itself, for target files in any state: none,  *)
(* a partial archive, the whole archive.                                   *)
(***************************************************************************)
\* Two downloads, of the first two projects, run side by side.
DirectCallers == {j \in Projects : j <= 2}

InitDownload ==
    /\ pc = [j \in Projects |->
                IF j \in DirectCallers THEN "call_download" ELSE "created"]
    /\ download_semaphore = max_concurrent_downloads
    /\ waiters = <<>>
    /\ files \in {f \in [Projects -> InitialFiles] :
                    \A j \in Projects \ DirectCallers : f[j] = NoFile}
    /\ projects_exported = 0
    /\ projects_failed = 0
    /\ retries = 0
    /\ total_size = 0
    /\ failed_projects = <<>>
    /\ attempt = [j \in Projects |-> 0]
    /\ outcome = [j \in Projects |-> "NONE"]
    /\ result = [j \in Projects |-> "pending"]
    /\ requests = [j \in Projects |-> 0]
    /\ trigger_status = [j \in Projects |-> -1]
    /\ download_status = [j \in Projects |-> -1]
    /\ file_mode = [j \in Projects |-> "none"]
    /\ downloaded_size = [j \in Projects |-> 0]
    /\ range_start = [j \in Projects |-> -1]
    /\ content_length = [j \in Projects |-> 0]
    /\ body = [j \in Projects |-> <<>>]
    /\ caller = [j \in Projects |-> "direct"]
    /\ runs = [j \in Projects |-> 1]
    /\ prev_outcome = [j \in Projects |-> "NONE"]
    /\ non200 = [j \in Projects |-> 0]
    /\ last_poll = [j \in Projects |-> "none"]
    /\ RetryIdle
    /\ PagesIdle
    /\ OrchIdle

\* Lines 318-333: download_export is entered and runs to its GET.
DownloadEnter(j) ==
    /\ pc[j] = "call_download"
    /\ DownloadCall(j)
    /\ UNCHANGED <<download_semaphore, waiters, files, stats_vars,
                   failed_projects, attempt, outcome, result, trigger_status,
                   job_ctx, other_vars>>

NextDownload ==
    \/ \E j \in DirectCallers : DownloadEnter(j)
    \/ \E j \in DirectCallers, status \in DownloadStatuses,
          has_length \in BOOLEAN :
            DownloadResponse(j, status, has_length)
    \/ \E j \in DirectCallers : StreamChunk(j)
    \/ \E j \in DirectCallers : StreamError(j)
    \/ \E j \in DirectCallers : StreamEnd(j)

SpecDownload == InitDownload /\ [][NextDownload]_vars

\* C6: download_export called with S chunks of the target on disk and a
\* remote archive of T > S chunks leaves, whenever it reports success, the
\* T chunks of the archive on disk, each once and in order - for a 206 and
\* for a 200 answer to the ranged request.
C6_ResumeExact ==
    \A j \in Projects :
        (/\ pc[j] = "done"
         /\ result[j] = "True"
         /\ file_mode[j] = "ab"
         /\ downloaded_size[j] < Len(Archive))
        => files[j].data = Archive

(***************************************************************************)
(* get_all_projects, lines 173-221. Every response of the listing endpoint *)
(* is recorded in `served`: its status, the number of items of the page    *)
(* and its x-next-page header.                                             *)
(***************************************************************************)
\* The x-next-page header: absent, empty, not a number, or a page number.
NoHeader == -1
EmptyHeader == 0
BadHeader == -2
NextHeaders == {NoHeader, EmptyHeader, BadHeader} \cup (1..MaxPages)

ListStatuses == {200, 500, ConnError}

\* The items of the k-th response, of n items.
PageItems(k, n) == [i \in 1..n |-> <<k, i>>]

\* Line 211: the header is there and is not empty.
HasNextPage(header) == header # NoHeader /\ header # EmptyHeader

\* Lines 202-203: `if not page_projects`.
EmptyPage(n) == n = 0

\* A check that lets a page with an error status through.
PageFailedOnlyOnRaise(status) == status = ConnError

\* Lines 197-199 and 216-218: the page request raised, or its response is
\* not a 200; the loop is left by break.
PageFailed(status) == status = ConnError \/ status # 200

\* An accumulator that keeps only the last page.
ExtendReplacing(acc, items) == items

\* Line 205: projects.extend(page_projects).
Extend(acc, items) == acc \o items

\* get_all_projects is called and runs to its first await: page 1 is
\* requested under an API-class slot.
InitPages ==
    /\ InitBatch
    /\ files = [j \in Projects |-> NoFile]
    /\ RetryIdle
    /\ g_pc = "fetch"
    /\ page = 1
    /\ projects = <<>>
    /\ api_semaphore = max_concurrent_api_calls - 1
    /\ served = <<>>
    /\ projects_count = 0
    /\ OrchIdle

\* Lines 220-221, after a break: the slot is released on leaving the async
\* with block, the count is stored and the list returned.
ListingEnds(acc) ==
    /\ g_pc' = "done"
    /\ projects' = acc
    /\ projects_count' = Len(acc)
    /\ api_semaphore' = api_semaphore + 1
    /\ UNCHANGED page

\* Lines 192-218: a response to the page request arrives. The remote serves
\* no more than MaxPages pages: the last of them cannot name a next page.
PageResponse(status, n, header) ==
    /\ g_pc = "fetch"
    /\ Len(served) + 1 = MaxPages => header \notin 1..MaxPages
    /\ served' = Append(served, [status |-> status, size |-> n,
                                 next |-> header])
    /\ UNCHANGED <<batch_vars, retries, retry_vars, orch_vars, aux_vars>>
    /\ IF PageFailed(status)
       THEN ListingEnds(projects)
       ELSE IF EmptyPage(n)
       THEN ListingEnds(projects)
       ELSE IF ~HasNextPage(header)
       THEN ListingEnds(Extend(projects, PageItems(Len(served) + 1, n)))
       ELSE IF header = BadHeader
       THEN \* int() raises ValueError, caught at 216
            ListingEnds(Extend(projects, PageItems(Len(served) + 1, n)))
       ELSE \* the next iteration: the slot is taken again, the GET issued
            /\ projects' = Extend(projects, PageItems(Len(served) + 1, n))
            /\ page' = header
            /\ UNCHANGED <<g_pc, api_semaphore, projects_count>>

NextPages ==
    \E status \in ListStatuses, n \in 0..MaxPageSize, header \in NextHeaders :
        PageResponse(status, n, header)

SpecPages == InitPages /\ [][NextPages]_vars

\* The sum of the sizes of the responses of a sequence.
RECURSIVE SumSizes(_)
SumSizes(seq) ==
    IF seq = <<>> THEN 0 ELSE Head(seq).size + SumSizes(Tail(seq))

\* Every response was a 200 page, and the last one is empty or names no
\* next page.
CleanListing ==
    /\ served # <<>>
    /\ \A i \in 1..Len(served) : served[i].status = 200
    /\ LET last == served[Len(served)]
       IN  last.size = 0 \/ last.next \in {NoHeader, EmptyHeader}

\* C10 as stated: the accumulated count is the sum of the sizes of the
\* pages before the final one.
C10_CountOfNonFinalPages ==
    CleanListing =>
        /\ g_pc = "done"
        /\ Len(projects) = SumSizes(SubSeq(served, 1, Len(served) - 1))

\* C10: when the last of a sequence of 200 pages is empty or names no next
\* page, the fetcher has ended and has accumulated as many items as all the
\* pages served hold, the final one included.
C10_CountOfAllPages ==
    CleanListing =>
        /\ g_pc = "done"
        /\ Len(projects) = SumSizes(served)
        /\ projects_count = SumSizes(served)

\* Several pages were served, the last one with items and no next page.
C10_Witness ==
    /\ CleanListing
    /\ g_pc = "done"
    /\ Len(served) >= 2
    /\ served[Len(served)].size > 0
    /\ served[1].size > 0

\* The items of the first n responses, in the order they were received.
RECURSIVE ItemsOf(_)
ItemsOf(n) ==
    IF n = 0 THEN <<>>
    ELSE ItemsOf(n - 1) \o PageItems(n, served[n].size)

\* C11: when a page request answers with a status other than 200, or
\* raises, get_all_projects has returned (it did not raise) and its result
\* is the items of the pages before that one, in the order received.
C11_FailedPageEndsListing ==
    (served # <<>> /\ served[Len(served)].status # 200)
    => /\ g_pc = "done"
       /\ projects = ItemsOf(Len(served) - 1)
       /\ projects_count = Len(projects)

\* The third page request failed after two pages with items.
C11_Witness ==
    /\ g_pc = "done"
    /\ Len(served) = 3
    /\ served[3].status # 200
    /\ Len(projects) = served[1].size + served[2].size
    /\ served[1].size > 0
    /\ served[2].size > 0

(***************************************************************************)
(* Properties of the batch.                                                *)
(***************************************************************************)
\* The projects in failed_projects.
Listed == {failed_projects[i] : i \in 1..Len(failed_projects)}

\* C1: in every reachable state of a batch of M > C projects, at most C
\* jobs hold a download-class slot (are between acquiring the semaphore and
\* their terminal outcome).
C1_SlotBound == Cardinality(Holding) <= max_concurrent_downloads

\* Every slot is held while another job is queued for one.
C1_Witness ==
    /\ NumProjects > max_concurrent_downloads
    /\ Cardinality(Holding) = max_concurrent_downloads
    /\ waiters # <<>>

\* C2: once every job of a batch of N has returned, projects_exported +
\* projects_failed = N, whatever the outcomes were.
C2_CountsAddUp ==
    BatchDone => projects_exported + projects_failed = NumProjects

\* A finished batch that holds a failed download beside a job that did not
\* fail that way.
C2_Witness ==
    /\ BatchDone
    /\ \E j \in Projects : outcome[j] = "DOWNLOAD_FAILED"
    /\ \E j \in Projects :
            outcome[j] \in {"DONE", "ALREADY_EXPORTED", "TIMED_OUT",
                            "REMOTE_FAILED", "EXCEPTION", "TRIGGER_REJECTED"}

\* C3: every job that ends in an outcome other than DONE or
\* ALREADY_EXPORTED is counted in projects_failed and is in failed_projects,
\* so that after the batch failed_projects holds exactly the projects whose
\* job did not succeed.
C3_EveryFailureListed ==
    BatchDone =>
        /\ Listed = {j \in Projects :
                        outcome[j] \notin {"DONE", "ALREADY_EXPORTED"}}
        /\ projects_failed = Len(failed_projects)

\* What the remote did for project j was all a success: the file was there
\* already, or the trigger was accepted and the download answered 200 and
\* delivered the whole archive.
Served(j) ==
    \/ requests[j] = 0
    \/ /\ trigger_status[j] \in {200, 202}
       /\ download_status[j] = 200
       /\ files[j] = File(Archive)

C5_SecondRunIsNoOp ==
    \A j \in Projects :
        (runs[j] > 1 /\ prev_outcome[j] = "DONE")
        => /\ requests[j] = 0
           /\ files[j] = File(Archive)
           /\ pc[j] \in {"created", "done"}
           /\ pc[j] = "done" =>
                (outcome[j] = "ALREADY_EXPORTED" /\ result[j] = "True")

\* The second invocation has returned after the first one downloaded.
C5_Witness ==
    \E j \in Projects :
        /\ runs[j] = 2
        /\ prev_outcome[j] = "DONE"
        /\ pc[j] = "done"
        /\ outcome[j] = "ALREADY_EXPORTED"

\* C18: a job holds one slot from before its trigger request to its return,
\* through every poll wait and the download. The slots taken are as many as
\* the jobs between acquisition and return; a job has issued requests only
\* inside that span; and a job inside it stays inside until it returns (it
\* is never put back to wait for a slot).
C18_SlotHeldThroughout ==
    [][/\ download_semaphore' + Cardinality(Holding') = max_concurrent_downloads
       /\ \A j \in Projects :
            /\ (requests'[j] > 0 /\ pc'[j] # "done") => j \in Holding'
            /\ requests'[j] > requests[j] => (j \in Holding' /\ pc'[j] # "woken")
            /\ (j \in Holding /\ pc'[j] # "done") => j \in Holding'
            /\ (j \in Holding /\ j \in Holding' /\ pc[j] # "woken")
                    => \A i \in 1..Len(waiters') : waiters'[i] # j]_vars

\* A job is in its second poll wait, holding the slot another job is queued
\* for.
C18_Witness ==
    \E j \in Projects :
        /\ pc[j] = "sleep"
        /\ attempt[j] >= 1
        /\ download_semaphore = 0
        /\ waiters # <<>>

\* C19: whatever status the trigger, a poll or the download is answered
\* with, export_project returns True or False, and a job that returned
\* False is counted in projects_failed and is in failed_projects.
C19_FailureCountedAndListed ==
    \A j \in Projects :
        pc[j] = "done" =>
            /\ result[j] \in {"True", "False"}
            /\ result[j] = "False" =>
                /\ projects_failed >= 1
                /\ \E i \in 1..Len(failed_projects) : failed_projects[i] = j

\* C8: a 429 on the export trigger does not fail the job at once: before
\* any failure is recorded the retry counter is incremented and the trigger
\* is issued again.
C8_Trigger429Retried ==
    \A j \in Projects :
        (trigger_status[j] = 429 /\ pc[j] = "done")
        => (retries > 0 /\ requests[j] > 1)

(***************************************************************************)
(* The batch with a slot for every job (max_concurrent_downloads at least  *)
(* the number of projects; the default is 5): no job queues, and all of    *)
(* them are suspended and resumed in any order.                            *)
(***************************************************************************)
InitWide ==
    /\ InitJobs(NumProjects)
    /\ RetryIdle
    /\ PagesIdle
    /\ OrchAtGather

NextWide ==
    \/ \E j \in Projects : Start(j)
    \/ \E j \in Projects, status \in BatchTriggerStatuses :
            TriggerResponse(j, status)
    \/ \E j \in Projects : PollRequest(j)
    \/ \E j \in Projects, status \in PollStatuses, es \in ExportStatuses :
            PollResponse(j, status, es, PollBudget)
    \/ \E j \in Projects, status \in DownloadStatuses :
            DownloadResponse(j, status, TRUE)
    \/ \E j \in Projects : StreamChunk(j)
    \/ \E j \in Projects : StreamError(j)
    \/ \E j \in Projects : StreamEnd(j)

SpecWide == InitWide /\ [][NextWide]_vars

\* The jobs that have left export_project by one of the return sites `outs`:
\* each of them performed the increment of that site once.
Returned(outs) ==
    {j \in Projects : pc[j] = "done" /\ outcome[j] \in outs}

\* C21: under every interleaving of the jobs at their awaits, each counter
\* of the statistics equals the increments performed on it: as many
\* projects_exported as jobs that returned by a success site, as many
\* projects_failed as jobs that returned by a failure site, and total_size
\* the sum of what the completed downloads added.
C21_NoLostIncrement ==
    /\ projects_exported =
            Cardinality(Returned({"DONE", "ALREADY_EXPORTED"}))
    /\ projects_failed =
            Cardinality(Returned({"EXCEPTION", "FORBIDDEN",
                                  "TRIGGER_REJECTED", "TIMED_OUT",
                                  "REMOTE_FAILED", "DOWNLOAD_FAILED"}))
    /\ total_size = Len(Archive) * Cardinality(Returned({"DONE"}))

\* A later job has downloaded and been counted while an earlier one, with
\* part of its archive written, is suspended in its download.
C21_Witness ==
    \E i \in Projects, j \in Projects :
        /\ i < j
        /\ pc[j] = "done"
        /\ outcome[j] = "DONE"
        /\ pc[i] = "stream"
        /\ Len(files[i].data) >= 1
        /\ projects_exported = 1

(***************************************************************************)
(* Properties of the backoff delays.                                       *)
(***************************************************************************)
\* C22: with the base delay of 1 second and any jitter values in [0, 1),
\* the delay computed before a retry is never smaller than the delay
\* computed before the retry that preceded it.
C22_DelaysNeverShrink ==
    [][(w_pc = "call" /\ w_pc' = "sleep" /\ x >= 1) => sleep' >= sleep]_vars

\* The second delay was computed with the smallest jitter there is.
C22_Witness ==
    /\ w_pc = "sleep"
    /\ x = 1
    /\ retries = 2
    /\ sleep = Backoff(1, 0)

(***************************************************************************)
(* Properties of a job that finds a file on disk.                          *)
(***************************************************************************)
\* The target file holds a proper prefix of the archive: what an
\* interrupted download left behind.
Partial(f) == Exists(f) /\ f \in {File(d) : d \in Prefixes} /\ f # File(Archive)

\* C23: a job that starts for a project whose target file is a partial
\* archive left by an interrupted download does not take the project for
\* exported: it issues a download whose Range starts at the size of the
\* file.
C23_PartialFileResumed ==
    \A j \in Projects :
        (/\ runs[j] > 1
         /\ prev_outcome[j] = "DOWNLOAD_FAILED"
         /\ Partial(files[j])
         /\ pc[j] = "done")
        => /\ outcome[j] # "ALREADY_EXPORTED"
           /\ requests[j] > 0

(***************************************************************************)
(* Properties of download_export's error handling.                         *)
(***************************************************************************)
\* C24: a 429 on the download request does not end download_export at
\* once: before it returns, the retry counter has been incremented and the
\* download request has been issued again.
C24_Download429Retried ==
    \A j \in DirectCallers :
        (download_status[j] = 429 /\ pc[j] = "done")
        => (retries > 0 /\ requests[j] > 1)

(***************************************************************************)
(* Properties of the API-class slots in the passes.                        *)
(***************************************************************************)
\* Lines 392-396 and 431-435: the GET of a wiki page or of a snippet's raw
\* content is issued inside the async with semaphore block of the listing
\* GET of its project (lines 376 and 417), under the slot taken for that
\* GET and not released since.
FurtherRequestUnderSlot == o_pc \in {"wikis", "snippets"} /\ p_pc = "item"

\* C25: in every pass each remote request is in flight under an API-class
\* slot, and a slot covers one request only: it is released before the
\* next request of the pass is issued.
C25_SlotPerRequest ==
    /\ inflight > 0 => api_semaphore < max_concurrent_api_calls
    /\ ~FurtherRequestUnderSlot

(***************************************************************************)
(* Properties of the handling of HTTP 403.                                 *)
(***************************************************************************)
\* C26: a job whose trigger was answered 403 ends by the access-forbidden
\* site (its own log message, lines 250-256), which no job with another
\* failure ends by, after that one request.
C26_ForbiddenLoggedApart ==
    \A j \in Projects :
        pc[j] = "done" =>
            /\ trigger_status[j] = 403 =>
                    (outcome[j] = "FORBIDDEN" /\ requests[j] = 1)
            /\ outcome[j] = "FORBIDDEN" => trigger_status[j] = 403

(***************************************************************************)
(* Properties of the order of a job's steps.                               *)
(***************************************************************************)
\* C27: a job issues a status poll only after its trigger was answered 200
\* or 202, and the download only after a poll reported 'finished'; a job
\* whose trigger was not accepted has issued the trigger and nothing else,
\* and a job whose export was reported 'failed' has issued no download.
C27_StepsInOrder ==
    \A j \in Projects :
        /\ pc[j] = "trigger" => requests[j] = 1
        /\ requests[j] >= 2 => trigger_status[j] \in {200, 202}
        /\ pc[j] \in {"sleep", "poll"} => file_mode[j] = "none"
        /\ file_mode[j] # "none" =>
                /\ trigger_status[j] \in {200, 202}
                /\ last_poll[j] = "finished"
                /\ Polls(j) >= 1
        /\ (pc[j] = "done" /\ trigger_status[j] \notin {200, 202}) =>
                /\ requests[j] <= 1
                /\ file_mode[j] = "none"
                /\ download_status[j] = -1
        /\ last_poll[j] = "failed" =>
                /\ outcome[j] = "REMOTE_FAILED"
                /\ file_mode[j] = "none"
                /\ download_status[j] = -1

\* A job is reading its archive after a trigger answered 200, two polls
\* that did not end the export and one that reported it finished.
C27_Witness ==
    \E j \in Projects :
        /\ pc[j] = "stream"
        /\ trigger_status[j] = 200
        /\ Polls(j) = 3
        /\ last_poll[j] = "finished"
        /\ requests[j] = 5

(***************************************************************************)
(* The target path of a project's archive, line 236:                       *)
(*   export_dir / "projects" / f"{project_path.replace('/', '_')}.tar.gz"  *)
(* for two projects of one instance. A path is a sequence of characters.   *)
(***************************************************************************)
PathChars == {"a", "_", "/"}

\* The values path_with_namespace can take: a namespace and a project name
\* joined by "/" (the namespace may itself be nested), each segment
\* beginning with a letter and holding letters and underscores.
Paths ==
    {q \in UNION {[1..n -> PathChars] : n \in 3..MaxPathLen} :
        /\ q[1] = "a"
        /\ q[Len(q)] # "/"
        /\ \E i \in 1..Len(q) : q[i] = "/"
        /\ \A i \in 1..(Len(q) - 1) : q[i] = "/" => q[i + 1] = "a"}

\* str.replace(old, new) for one-character strings.
Replace(q, old, new) ==
    [i \in 1..Len(q) |-> IF q[i] = old THEN new ELSE q[i]]

\* Line 236: the path of the archive below export_dir.
ExportFile(q) == <<"projects", Replace(q, "/", "_") \o <<".tar.gz">> >>

\* The listing has returned two projects; GitLab gives distinct projects
\* distinct values of path_with_namespace.
InitPaths ==
    /\ InitBatch
    /\ files = [j \in Projects |-> NoFile]
    /\ RetryIdle
    /\ PagesIdle
    /\ RunIdle
    /\ RateIdle
    /\ PassesAt("idle")
    /\ DirIdle
    /\ project_path \in [PathPair -> Paths]
    /\ project_path[1] # project_path[2]
    /\ export_file = [k \in PathPair |-> <<>>]

\* Lines 228-236: the job of project k computes its export_file.
ComputeExportFile(k) ==
    /\ export_file[k] = <<>>
    /\ export_file' = [export_file EXCEPT ![k] = ExportFile(project_path[k])]
    /\ UNCHANGED <<batch_vars, retries, retry_vars, page_vars, orch_vars,
                   run_vars, rate_vars, dir_vars, project_path>>

NextPaths == \E k \in PathPair : ComputeExportFile(k)

SpecPaths == InitPaths /\ [][NextPaths]_vars

\* C28: two projects of one instance with distinct path_with_namespace
\* have distinct target archive paths.
C28_DistinctTargets ==
    (/\ project_path[1] # project_path[2]
     /\ export_file[1] # <<>>
     /\ export_file[2] # <<>>)
    => export_file[1] # export_file[2]

(***************************************************************************)
(* Properties of the discovered attributes of an instance.                 *)
(***************************************************************************)
\* C29: an instance whose validate_connection returned False has its
\* username, email and version as they were before the call.
C29_AttributesOnlyOnSuccess ==
    \A i \in Instances :
        stage[i] = "failed" => (~username[i] /\ ~version[i])

(***************************************************************************)
(* Properties of stats.total_size.                                         *)
(***************************************************************************)
\* The chunks the call of download_export for project j has written to its
\* file: all the file holds, less what an appending call found there.
Written(j) ==
    Len(files[j].data)
        - (IF file_mode[j] = "ab" THEN downloaded_size[j] ELSE 0)

\* What a call that has returned True has written; nothing otherwise.
WrittenBySuccess(j) ==
    IF pc[j] = "done" /\ result[j] = "True" THEN Written(j) ELSE 0

\* C30: once the calls of download_export have returned, stats.total_size
\* is the number of bytes the successful ones have written to their files,
\* with or without a Content-Length header, resumed or not.
C30_TotalSizeIsBytesWritten ==
    (\A j \in DirectCallers : pc[j] = "done")
    => total_size = WrittenBySuccess(1) + WrittenBySuccess(2)

(***************************************************************************)
(* Properties of the outcome of a download.                                *)
(***************************************************************************)
\* C31 as stated: download_export has returned True exactly when the
\* download was answered 200 or 206.
C31_SuccessIffAccepted ==
    \A j \in Projects :
        (pc[j] = "done" /\ download_status[j] # -1)
        => (result[j] = "True" <=> download_status[j] \in {200, 206})

\* The step by which the job of project j returns from its download.
DownloadOver(j) ==
    /\ pc[j] \in {"download", "stream"}
    /\ pc'[j] = "done"

\* C31, amended: download_export returns True exactly when the download
\* was answered 200 or 206 and the body was read to its end; for every
\* other status, and for a body whose reading raised, it returns False, and
\* the job is then counted in projects_failed and not in projects_exported;
\* a job whose download returned True is counted in projects_exported.
C31_SuccessIffAcceptedAndRead ==
    [][\A j \in Projects :
          DownloadOver(j) =>
            LET read == /\ download_status'[j] \in {200, 206}
                        /\ pc[j] = "stream"
                        /\ body[j] = <<>>
            IN  /\ result'[j] = (IF read THEN "True" ELSE "False")
                /\ download_status'[j] \notin {200, 206}
                        => result'[j] = "False"
                /\ result'[j] = "False" =>
                        /\ projects_failed' = projects_failed + 1
                        /\ projects_exported' = projects_exported
                /\ result'[j] = "True" =>
                        /\ projects_exported' = projects_exported + 1
                        /\ projects_failed' = projects_failed]_vars

\* One download was answered 500 and its job counted failed, another was
\* answered 200, read to its end and its job counted exported.
C31_Witness ==
    \E i \in Projects, j \in Projects :
        /\ pc[i] = "done"
        /\ download_status[i] = 500
        /\ result[i] = "False"
        /\ pc[j] = "done"
        /\ download_status[j] = 200
        /\ result[j] = "True"
        /\ projects_failed = 1
        /\ projects_exported = 1

(***************************************************************************)
(* The batch with a slot for every job, for two projects whose             *)
(* export_file may be the same path (line 236 maps "a/a/a" and "a/a_a" to  *)
(* the same file name).                                                    *)
(***************************************************************************)
SharedPaths ==
    {<<"a", "/", "a", "/", "a">>, <<"a", "/", "a", "_", "a">>,
     <<"a", "/", "a", "a", "a">>}

InitShared ==
    /\ InitJobs(NumProjects)
    /\ RetryIdle
    /\ PagesIdle
    /\ RunIdle
    /\ RateIdle
    /\ PassesAt("gather")
    /\ DirIdle
    /\ project_path \in [PathPair -> SharedPaths]
    /\ project_path[1] # project_path[2]
    /\ export_file = [k \in PathPair |-> ExportFile(project_path[k])]
    /\ \A j \in Projects : FileOf(j) # j => files[j] = NoFile

SpecShared == InitShared /\ [][NextWide]_vars

\* C32: no step deletes or shortens a target file that exists, and a
\* download that is rejected by its status leaves the file as it is.
C32_FileNeverShrinks ==
    [][\A k \in Projects :
          /\ Exists(files[k]) =>
                /\ Exists(files'[k])
                /\ Len(files'[k].data) >= Len(files[k].data)
          /\ \A j \in Projects :
                (/\ FileOf(j) = k
                 /\ pc[j] = "download"
                 /\ download_status'[j] \notin {200, 206})
                => files'[k] = files[k]]_vars

(***************************************************************************)
(* Properties of the project listing call of run_export.                   *)
(***************************************************************************)
\* C33: for an instance whose validation succeeded the listing is called
\* with an API-class pool that exists, so that run_export does not raise
\* there and goes on with the instance.
C33_ListingHasPool ==
    /\ r_pc # "raised"
    /\ \A i \in Instances : Validated(i) => stage[i] # "raised"

(***************************************************************************)
(* The exporter created anew for the same instance and the same base       *)
(* directory (a later run of the program). Line 103:                       *)
(*   export_dir / instance.name / datetime.now().strftime('%Y%m%d_%H%M%S') *)
(* One project is exported by each exporter.                               *)
(***************************************************************************)
\* What the steps of a job leave alone here is in other_vars; the clock
\* moves by itself.
Tick ==
    /\ clock < MaxClock
    /\ clock' = clock + 1
    /\ UNCHANGED <<batch_vars, retries, retry_vars, page_vars, orch_vars,
                   run_vars, rate_vars, path_vars, export_dir, disk>>

\* Lines 101-112 and 709-717: the exporter of the run that is over is
\* dropped and a new one is created. Its export_dir is named after the
\* second of its creation; what the old one wrote stays where it is. The
\* statistics and failed_projects start afresh.
NewExporter ==
    /\ pc[1] = "done"
    /\ disk' = [disk EXCEPT ![export_dir] = files]
    /\ export_dir' = clock
    /\ files' = disk'[clock]
    /\ pc' = [j \in Projects |-> "created"]
    /\ projects_exported' = 0
    /\ projects_failed' = 0
    /\ total_size' = 0
    /\ retries' = 0
    /\ failed_projects' = <<>>
    /\ outcome' = [j \in Projects |-> "NONE"]
    /\ result' = [j \in Projects |-> "pending"]
    /\ requests' = [j \in Projects |-> 0]
    /\ trigger_status' = [j \in Projects |-> -1]
    /\ download_status' = [j \in Projects |-> -1]
    /\ file_mode' = [j \in Projects |-> "none"]
    /\ downloaded_size' = [j \in Projects |-> 0]
    /\ range_start' = [j \in Projects |-> -1]
    /\ UNCHANGED <<download_semaphore, waiters, attempt, content_length,
                   body, job_ctx, retry_vars, page_vars, orch_vars,
                   run_vars, rate_vars, path_vars, clock>>

InitRestart ==
    /\ Init
    /\ files = [j \in Projects |-> NoFile]

\* The trigger is accepted or answered 500, the export finishes or fails,
\* the download is answered 200 or 500.
NextRestart ==
    \/ Start(1)
    \/ \E status \in {202, 500} : TriggerResponse(1, status)
    \/ PollRequest(1)
    \/ \E es \in {"finished", "failed"} :
            PollResponse(1, 200, es, PollBudget)
    \/ \E status \in {200, 500} : DownloadResponse(1, status, TRUE)
    \/ StreamChunk(1)
    \/ StreamError(1)
    \/ StreamEnd(1)
    \/ Tick
    \/ NewExporter

SpecRestart == InitRestart /\ [][NextRestart]_vars

\* C34: a job of an exporter created later than one that wrote the whole
\* archive of the project takes the already-exported path: it returns
\* without having issued a request.
C34_LaterRunFindsArchive ==
    \A j \in Projects :
        (/\ pc[j] = "done"
         /\ \E t \in Timestamps :
                t < export_dir /\ disk[t][j] = File(Archive))
        => /\ outcome[j] = "ALREADY_EXPORTED"
           /\ requests[j] = 0

(***************************************************************************)
(* Properties of stats.retries.                                            *)
(***************************************************************************)
\* C35: stats.retries is the number of backoff waits the wrapper has begun:
\* one more than x during a wait, x otherwise. Every step that begins a
\* wait adds one to it and no other step changes it; the 429 that exhausts
\* the limit is raised without being counted.
C35_RetriesCountsWaits ==
    [][/\ retries = (IF w_pc = "sleep" THEN x + 1 ELSE x)
       /\ retries' = (IF w_pc' = "sleep" THEN x' + 1 ELSE x')
       /\ (w_pc = "call" /\ w_pc' = "sleep") <=> retries' = retries + 1
       /\ retries' \in {retries, retries + 1}
       /\ (w_pc' = "raised" /\ w_status' = 429) =>
            /\ retries' = retries
            /\ retries' = w_retries]_vars

\* Three 429s were retried and counted, and the fourth, which exhausts a
\* limit of three, has been raised.
C35_Witness ==
    /\ w_pc = "raised"
    /\ w_status = 429
    /\ w_retries = 3
    /\ retries = 3
    /\ calls = 4

(***************************************************************************)
(* The batch under a fair event loop and a remote that answers: a job that *)
(* can take a step (be started, be resumed with the slot it was handed,    *)
(* wake from its poll sleep, receive a response or a chunk) takes one in   *)
(* the end.                                                                *)
(***************************************************************************)
\* The steps of job j. The trigger is accepted or answered 500; a poll is
\* answered 200 or 500 and reports the export started or finished; the
\* download is answered 200 or 500 and its body may break off.
Step(j) ==
    \/ Start(j)
    \/ Resume(j)
    \/ \E status \in {202, 500} : TriggerResponse(j, status)
    \/ PollRequest(j)
    \/ \E status \in {200, 500}, es \in {"started", "finished"} :
            PollResponse(j, status, es, PollBudget)
    \/ \E status \in {200, 500} : DownloadResponse(j, status, TRUE)
    \/ StreamChunk(j)
    \/ StreamError(j)
    \/ StreamEnd(j)

NextLive ==
    \/ \E j \in Projects : Start(j)
    \/ \E j \in Projects : Resume(j)
    \/ \E j \in Projects, status \in {202, 500} : TriggerResponse(j, status)
    \/ \E j \in Projects : PollRequest(j)
    \/ \E j \in Projects, status \in {200, 500},
          es \in {"started", "finished"} :
            PollResponse(j, status, es, PollBudget)
    \/ \E j \in Projects, status \in {200, 500} :
            DownloadResponse(j, status, TRUE)
    \/ \E j \in Projects : StreamChunk(j)
    \/ \E j \in Projects : StreamError(j)
    \/ \E j \in Projects : StreamEnd(j)

Fairness == \A j \in Projects : WF_vars(Step(j))

SpecLive == Init /\ [][NextLive]_vars /\ Fairness

\* C36: every job of the batch returns in the end, whatever the remote
\* answers and in whatever order the jobs are run: none waits for a slot
\* for ever.
C36_EveryJobReturns == <>BatchDone

\* A job has been handed the slot it had queued for, by a job that timed
\* out.
C36_Witness ==
    \E i \in Projects, j \in Projects :
        /\ pc[i] = "done"
        /\ outcome[i] = "TIMED_OUT"
        /\ pc[j] = "woken"
        /\ waiters = <<>>
        /\ download_semaphore = 0

(***************************************************************************)
(* Properties of the release of the download slots.                        *)
(***************************************************************************)
\* C37: the slots taken are at all times as many as the jobs that have
\* acquired one and not yet returned, by whichever exit the returned jobs
\* left; once every job of the batch has returned, all
\* max_concurrent_downloads slots are free and nobody is queued.
C37_SlotsReleased ==
    /\ max_concurrent_downloads - download_semaphore = Cardinality(Holding)
    /\ download_semaphore \in 0..max_concurrent_downloads
    /\ BatchDone =>
        /\ download_semaphore = max_concurrent_downloads
        /\ waiters = <<>>

\* The batch is over with every slot free: one job timed out and another
\* left with a failed download.
C37_Witness ==
    /\ BatchDone
    /\ download_semaphore = max_concurrent_downloads
    /\ \E j \in Projects : outcome[j] = "TIMED_OUT"
    /\ \E j \in Projects : outcome[j] = "DOWNLOAD_FAILED"

(***************************************************************************)
(* Properties of the contents of failed_projects.                          *)
(***************************************************************************)
\* C38: in every reachable state failed_projects holds no project twice,
\* holds only projects whose job has returned False with a failing outcome,
\* and is no longer than stats.projects_failed.
C38_FailedListSound ==
    /\ \A i, k \in 1..Len(failed_projects) :
            failed_projects[i] = failed_projects[k] => i = k
    /\ \A j \in Listed :
            /\ j \in Projects
            /\ pc[j] = "done"
            /\ result[j] = "False"
            /\ outcome[j] \notin {"DONE", "ALREADY_EXPORTED"}
    /\ Len(failed_projects) <= projects_failed

\* One job has failed and is in failed_projects while another has failed in
\* its download and is not: the list is shorter than the count.
C38_Witness ==
    /\ \E j \in Listed : outcome[j] = "TIMED_OUT"
    /\ \E j \in Projects \ Listed :
            pc[j] = "done" /\ outcome[j] = "DOWNLOAD_FAILED"
    /\ Len(failed_projects) = 1
    /\ projects_failed = 2

(***************************************************************************)
(* Properties of the sequence of pages requested by get_all_projects.      *)
(***************************************************************************)
\* C39: each page request of get_all_projects after the first is for a
\* page number greater than that of the request before it, so that the
\* requests are bounded by the largest page number the remote names and
\* the listing ends whatever the x-next-page header holds.
C39_PagesIncrease ==
    [][(g_pc = "fetch" /\ g_pc' = "fetch" /\ served' # served)
            => page' > page]_vars

====
